---- MODULE Spec2Model ----
(***************************************************************************)
(* wtm (worktree manager): sync / push of repo-local config files between  *)
(* a repository, a per-user cache and a linked worktree.                   *)
(*                                                                         *)
(* Strings are TLA+ strings (TLC treats them as sequences of characters),  *)
(* paths are Unix paths (filepath.Separator = '/').                        *)
(***************************************************************************)
EXTENDS Integers, Sequences, FiniteSets, TLC

(***************************************************************************)
(* Strings: the Go string and strings.* functions the code uses.           *)
(***************************************************************************)

\* The characters that occur in paths, patterns and input lines, in byte order.
Ascii == "\t\n\r !#+-./0123456789:=?ABCDEFGHIJKLMNOPQRSTUVWXYZ[\\]_abcdefghijklmnopqrstuvwxyz{}~"

CharAt(s, i) == SubSeq(s, i, i)

\* The byte value order of a character (its position in Ascii).
Ord(c) == CHOOSE i \in 1..Len(Ascii) : CharAt(Ascii, i) = c

\* The Go comparison s < t on strings: bytewise lexicographic.
RECURSIVE StrLess(_, _)
StrLess(s, t) ==
    IF t = "" THEN FALSE
    ELSE IF s = "" THEN TRUE
    ELSE IF CharAt(s, 1) = CharAt(t, 1) THEN StrLess(Tail(s), Tail(t))
    ELSE Ord(CharAt(s, 1)) < Ord(CharAt(t, 1))

HasPrefix(s, p) == Len(s) >= Len(p) /\ SubSeq(s, 1, Len(p)) = p

TrimPrefix(s, p) == IF HasPrefix(s, p) THEN SubSeq(s, Len(p) + 1, Len(s)) ELSE s

\* strings.Trim(s, cutset): cutset is a set of one-character strings.
RECURSIVE TrimLeft(_, _)
TrimLeft(s, cutset) ==
    IF s # "" /\ CharAt(s, 1) \in cutset THEN TrimLeft(Tail(s), cutset) ELSE s

RECURSIVE TrimRight(_, _)
TrimRight(s, cutset) ==
    IF s # "" /\ CharAt(s, Len(s)) \in cutset
    THEN TrimRight(SubSeq(s, 1, Len(s) - 1), cutset)
    ELSE s

Trim(s, cutset) == TrimRight(TrimLeft(s, cutset), cutset)

WhiteSpace == {" ", "\t", "\n", "\r"}

TrimSpace(s) == Trim(s, WhiteSpace)

Upper == "ABCDEFGHIJKLMNOPQRSTUVWXYZ"
Lower == "abcdefghijklmnopqrstuvwxyz"

LowerChar(c) ==
    IF \E i \in 1..Len(Upper) : CharAt(Upper, i) = c
    THEN CharAt(Lower, CHOOSE i \in 1..Len(Upper) : CharAt(Upper, i) = c)
    ELSE c

RECURSIVE ToLower(_)
ToLower(s) == IF s = "" THEN "" ELSE LowerChar(CharAt(s, 1)) \o ToLower(Tail(s))

\* strings.Index(s, sep) for a one-character sep, counted from 1: 0 when sep
\* does not occur.
Index(s, sep) ==
    IF \E i \in 1..Len(s) : CharAt(s, i) = sep
    THEN CHOOSE i \in 1..Len(s) :
            CharAt(s, i) = sep /\ \A j \in 1..(i - 1) : CharAt(s, j) # sep
    ELSE 0

\* strings.Split(s, sep) for a one-character sep: always at least one part.
RECURSIVE SplitFrom(_, _, _)
SplitFrom(s, sep, k) ==
    IF k = 0 THEN <<s>>
    ELSE <<SubSeq(s, 1, k - 1)>>
         \o SplitFrom(SubSeq(s, k + 1, Len(s)), sep, Index(SubSeq(s, k + 1, Len(s)), sep))

Split(s, sep) == SplitFrom(s, sep, Index(s, sep))

\* strings.Join(parts, sep).
RECURSIVE JoinStr(_, _)
JoinStr(parts, sep) ==
    IF parts = <<>> THEN ""
    ELSE IF Len(parts) = 1 THEN parts[1]
    ELSE parts[1] \o sep \o JoinStr(Tail(parts), sep)

\* The elements of a sequence of strings that are not in drop, in order.
RECURSIVE Without(_, _)
Without(seq, drop) ==
    IF seq = <<>> THEN <<>>
    ELSE (IF seq[1] \in drop THEN <<>> ELSE <<seq[1]>>) \o Without(Tail(seq), drop)

(***************************************************************************)
(* path/filepath on Unix.                                                  *)
(***************************************************************************)

\* filepath.ToSlash: replaces filepath.Separator by '/'; the separator is '/'.
ToSlash(p) == p

IsAbs(p) == HasPrefix(p, "/")

\* The lexical processing of Clean on the components of a path.
RECURSIVE CleanComps(_, _, _)
CleanComps(comps, stack, rooted) ==
    IF comps = <<>> THEN stack
    ELSE LET c == comps[1] rest == Tail(comps) IN
         IF c = "" \/ c = "." THEN CleanComps(rest, stack, rooted)
         ELSE IF c = ".." THEN
              IF stack # <<>> /\ stack[Len(stack)] # ".."
              THEN CleanComps(rest, SubSeq(stack, 1, Len(stack) - 1), rooted)
              ELSE IF rooted THEN CleanComps(rest, stack, rooted)
              ELSE CleanComps(rest, Append(stack, ".."), rooted)
         ELSE CleanComps(rest, Append(stack, c), rooted)

\* filepath.Clean.
CleanOut(rooted, body) ==
    IF rooted THEN "/" \o body
    ELSE IF body = "" THEN "." ELSE body

Clean(p) ==
    IF p = "" THEN "."
    ELSE CleanOut(IsAbs(p), JoinStr(CleanComps(Split(p, "/"), <<>>, IsAbs(p)), "/"))

\* filepath.Join: the non-empty elements joined by '/', then cleaned.
Join(elems) ==
    LET ne == Without(elems, {""})
    IN  IF ne = <<>> THEN "" ELSE Clean(JoinStr(ne, "/"))

\* filepath.Base.
Base(p) ==
    IF p = "" THEN "."
    ELSE LET q == TrimRight(p, {"/"}) IN
         IF q = "" THEN "/"
         ELSE LET parts == Split(q, "/") IN parts[Len(parts)]

\* filepath.Dir.
Dir(p) ==
    LET parts == Split(p, "/")
    IN  Clean(JoinStr(SubSeq(parts, 1, Len(parts) - 1), "/")
              \o (IF Len(parts) > 1 THEN "/" ELSE ""))

\* The components of a cleaned path.
Comps(cp) ==
    IF cp = "." THEN <<>>
    ELSE Without(Split(cp, "/"), {""})

RECURSIVE CommonLen(_, _)
CommonLen(a, b) ==
    IF a # <<>> /\ b # <<>> /\ a[1] = b[1] THEN 1 + CommonLen(Tail(a), Tail(b)) ELSE 0

\* filepath.Rel(base, targ): [err |-> BOOLEAN, rel |-> string].
\* Rel on the cleaned paths: brest and trest are what is left of the
\* components of base and of targ after their common prefix.
RelRest(base, targ, brest, trest) ==
    IF targ = base THEN [err |-> FALSE, rel |-> "."]
    ELSE IF IsAbs(base) # IsAbs(targ) THEN [err |-> TRUE, rel |-> ""]
    ELSE IF brest # <<>> /\ brest[1] = ".." THEN [err |-> TRUE, rel |-> ""]
    ELSE [err |-> FALSE,
          rel |-> JoinStr([i \in 1..Len(brest) |-> ".."] \o trest, "/")]

RelComps(base, targ, bc, tc, n) ==
    RelRest(base, targ, SubSeq(bc, n + 1, Len(bc)), SubSeq(tc, n + 1, Len(tc)))

RelClean(base, targ) ==
    RelComps(base, targ, Comps(base), Comps(targ), CommonLen(Comps(base), Comps(targ)))

Rel(basepath, targpath) == RelClean(Clean(basepath), Clean(targpath))

\* A variant of samePath that finds no two paths the same;
\* C8_SelfSyncRejected tells it from samePath.
neverSamePath(a, b) == FALSE

\* samePath: equality of the cleaned paths.
samePath(a, b) == Clean(a) = Clean(b)

(***************************************************************************)
(* Cache path derivation (sync.go, storeRootPath and its helpers).         *)
(***************************************************************************)

storeRootDir == ".wtm"
storeSubDir == "configs"

\* sanitizeName: separators, space, colon and tab become '_'; then the
\* result is trimmed of '_' and ' '.
RECURSIVE ReplaceUnsafe(_)
ReplaceUnsafe(s) ==
    IF s = "" THEN ""
    ELSE (IF CharAt(s, 1) \in {"/", "\\", " ", ":", "\t"} THEN "_" ELSE CharAt(s, 1))
         \o ReplaceUnsafe(Tail(s))

sanitizeName(s) == Trim(ReplaceUnsafe(s), {"_", " "})

RECURSIVE sanitizeSegments(_)
sanitizeSegments(parts) ==
    IF parts = <<>> THEN <<>>
    ELSE (IF TrimSpace(parts[1]) = "" \/ sanitizeName(TrimSpace(parts[1])) = ""
          THEN <<>>
          ELSE <<sanitizeName(TrimSpace(parts[1]))>>)
         \o sanitizeSegments(Tail(parts))

splitPathComponents(path) ==
    IF path = "" THEN <<>>
    ELSE Without(Split(ToSlash(path), "/"), {"", "."})

\* worktreePathSegments after its call of filepath.Rel returned r.
segmentsOfRel(r, wtPath) ==
    IF ~r.err /\ r.rel # "" /\ r.rel # "."
    THEN sanitizeSegments(Split(ToSlash(r.rel), "/"))
    ELSE sanitizeSegments(splitPathComponents(wtPath))

worktreePathSegments(repoRoot, wtPath) == segmentsOfRel(Rel(repoRoot, wtPath), wtPath)

\* storeRootPath: [err |-> BOOLEAN, path |-> string]; os.UserHomeDir fails
\* when $HOME is empty.
\* storeRootPath after the slug and the segments are computed.
storeRootOf(homeDir, slug, segments) ==
    [err  |-> FALSE,
     path |-> Join(<<homeDir, storeRootDir, storeSubDir,
                     IF slug = "" THEN "repo" ELSE slug>>
                   \o (IF Len(segments) = 0 THEN <<"worktree">> ELSE segments))]

storeRootPath(homeDir, repoRoot, wtPath) ==
    IF homeDir = "" THEN [err |-> TRUE, path |-> ""]
    ELSE storeRootOf(homeDir, sanitizeName(Base(repoRoot)),
                     worktreePathSegments(repoRoot, wtPath))

(***************************************************************************)
(* Pattern matching (sync.go, normalizePatterns and matchesAny; the match  *)
(* of one pattern is github.com/bmatcuk/doublestar/v4 Match, modelled for  *)
(* patterns of literals, '?', '*' and '**').                               *)
(***************************************************************************)

\* One path segment against one pattern segment: '*' is any run of
\* characters, '?' is one character, anything else is itself.
RECURSIVE SegMatch(_, _)
SegMatch(pat, name) ==
    IF pat = "" THEN name = ""
    ELSE IF CharAt(pat, 1) = "*"
         THEN \E k \in 0..Len(name) : SegMatch(Tail(pat), SubSeq(name, k + 1, Len(name)))
    ELSE IF name = "" THEN FALSE
    ELSE IF CharAt(pat, 1) = "?" THEN SegMatch(Tail(pat), Tail(name))
    ELSE CharAt(pat, 1) = CharAt(name, 1) /\ SegMatch(Tail(pat), Tail(name))

\* Pattern segments against path segments: a segment '**' is zero or more
\* whole path segments.
RECURSIVE SegsMatch(_, _)
SegsMatch(pats, names) ==
    IF pats = <<>> THEN names = <<>>
    ELSE IF pats[1] = "**"
         THEN \E k \in 0..Len(names) :
                  SegsMatch(Tail(pats), SubSeq(names, k + 1, Len(names)))
    ELSE /\ names # <<>>
         /\ SegMatch(pats[1], names[1])
         /\ SegsMatch(Tail(pats), Tail(names))

\* A pattern doublestar rejects with ErrBadPattern: a character class that
\* is never closed, or a trailing escape character.
BadPattern(pat) ==
    \/ \E i \in 1..Len(pat) :
          /\ CharAt(pat, i) = "["
          /\ \A j \in (i + 1)..Len(pat) : CharAt(pat, j) # "]"
    \/ (pat # "" /\ CharAt(pat, Len(pat)) = "\\")

\* doublestar.Match(pattern, name): [ok |-> BOOLEAN, err |-> BOOLEAN].
Match(pat, name) ==
    IF BadPattern(pat) THEN [ok |-> FALSE, err |-> TRUE]
    ELSE [ok |-> SegsMatch(Split(pat, "/"), Split(name, "/")), err |-> FALSE]

RECURSIVE normalizePatterns(_)
normalizePatterns(in) ==
    IF in = <<>> THEN <<>>
    ELSE LET p == TrimSpace(in[1]) IN
         (IF p = "" THEN <<>> ELSE <<ToSlash(p)>>) \o normalizePatterns(Tail(in))

RECURSIVE matchesAny(_, _)
matchesAny(patterns, rel) ==
    IF patterns = <<>> THEN FALSE
    ELSE LET m == Match(patterns[1], rel) IN
         IF ~m.err /\ m.ok THEN TRUE ELSE matchesAny(Tail(patterns), rel)

(***************************************************************************)
(* Config (config.go).                                                     *)
(***************************************************************************)

DefaultConfigFileName == ".worktree-manager.yml"

Default ==
    [Include |-> <<".env", ".env.*", "**/.env", "**/.env.*">>,
     Exclude |-> <<"**/*.example*", "**/node_modules/**", "**/.git/**">>]

\* A loader that falls back to the whole of the defaults when either list of
\* the file is empty.
LoadAllOrNothing(repoRoot, file) ==
    IF file.state = "absent"
    THEN [err |-> FALSE, Config |-> Default, Source |-> "defaults"]
    ELSE IF file.state \in {"unreadable", "malformed"}
    THEN [err |-> TRUE, Config |-> [Include |-> <<>>, Exclude |-> <<>>], Source |-> ""]
    ELSE [err |-> FALSE,
          Config |-> IF Len(file.Include) = 0 \/ Len(file.Exclude) = 0 THEN Default
                     ELSE [Include |-> file.Include, Exclude |-> file.Exclude],
          Source |-> Join(<<repoRoot, DefaultConfigFileName>>)]

\* The config file as the loader finds it: state is "absent", "unreadable"
\* (os.ReadFile fails otherwise), "malformed" (yaml.Unmarshal fails) or
\* "parsed", with the lists of the parsed mapping.
\* Load: [err |-> BOOLEAN, Config |-> ..., Source |-> string].
Load(repoRoot, file) ==
    LET path == Join(<<repoRoot, DefaultConfigFileName>>)
    IN  IF file.state = "absent"
        THEN [err |-> FALSE, Config |-> Default, Source |-> "defaults"]
        ELSE IF file.state \in {"unreadable", "malformed"}
        THEN [err |-> TRUE, Config |-> [Include |-> <<>>, Exclude |-> <<>>], Source |-> ""]
        ELSE [err |-> FALSE,
              Config |-> [Include |-> IF Len(file.Include) = 0 THEN Default.Include
                                      ELSE file.Include,
                          Exclude |-> IF Len(file.Exclude) = 0 THEN Default.Exclude
                                      ELSE file.Exclude],
              Source |-> path]

(***************************************************************************)
(* The filesystem: a function from the absolute paths that exist to their  *)
(* entries; the directory of every entry exists. A path of the filesystem  *)
(* is kept as the sequence of the components of the clean absolute path    *)
(* ("/r/wt/.env" is <<"r", "wt", ".env">>, "/" is <<>>). Content is what   *)
(* is modelled of a file; mode bits and times are not.                     *)
(***************************************************************************)

PathOf(s) == Comps(Clean(s))
PathStr(p) == "/" \o JoinStr(p, "/")

\* The path no entry has; the zero value of a path.
NoPath == <<"">>

DirOf(p) == SubSeq(p, 1, Len(p) - 1)
BaseOf(p) == IF p = <<>> THEN "/" ELSE p[Len(p)]
IsUnder(q, d) == Len(q) > Len(d) /\ SubSeq(q, 1, Len(d)) = d

\* F of the value v, with v computed once (the result of a call, then what
\* the code does with it).
After(v, F(_)) == CHOOSE r \in {F(x) : x \in {v}} : TRUE

FileE(d) == [kind |-> "file", data |-> d, target |-> NoPath]
LinkE(t) == [kind |-> "link", data |-> "", target |-> t]
DirE == [kind |-> "dir", data |-> "", target |-> NoPath]

Put(f, p, e) == [q \in (DOMAIN f) \cup {p} |-> IF q = p THEN e ELSE f[q]]
Del(f, p) == [q \in (DOMAIN f) \ {p} |-> f[q]]

\* The depth to which a chain of symlinks is followed.
MaxLinkDepth == 4

\* os.Stat / os.Open: the path after following symlinks, NoPath when it
\* does not resolve to an existing entry.
RECURSIVE ResolveN(_, _, _)
ResolveN(f, p, n) ==
    IF p \notin DOMAIN f THEN NoPath
    ELSE IF f[p].kind = "link"
         THEN IF n = 0 THEN NoPath ELSE ResolveN(f, f[p].target, n - 1)
    ELSE p

Resolve(f, p) == ResolveN(f, p, MaxLinkDepth)

\* What reading the path yields: the data of the file it resolves to.
Content(f, p) ==
    LET q == Resolve(f, p)
    IN  IF q # NoPath /\ f[q].kind = "file" THEN f[q].data ELSE "<none>"

IsDirAt(f, p) == p = <<>> \/ (Resolve(f, p) # NoPath /\ f[Resolve(f, p)].kind = "dir")

\* os.MkdirAll: nothing is created when an ancestor exists and is no
\* directory; otherwise every missing ancestor is created.
MkdirAll(f, dir, fail) ==
    LET pre == {SubSeq(dir, 1, i) : i \in 1..Len(dir)}
        blocked == \E q \in pre : q \in DOMAIN f /\ ~IsDirAt(f, q)
        missing == pre \ DOMAIN f
    IN  IF blocked \/ (fail /\ missing # {}) THEN [err |-> TRUE, fs |-> f]
        ELSE IF missing = {} THEN [err |-> FALSE, fs |-> f]
        ELSE [err |-> FALSE,
              fs  |-> [q \in (DOMAIN f) \cup missing |->
                          IF q \in DOMAIN f THEN f[q] ELSE DirE]]

\* os.Remove: a file, a symlink or an empty directory.
Remove(f, p, fail) ==
    IF fail \/ p \notin DOMAIN f
       \/ (f[p].kind = "dir" /\ \E q \in DOMAIN f : IsUnder(q, p))
    THEN [err |-> TRUE, fs |-> f]
    ELSE [err |-> FALSE, fs |-> Del(f, p)]

\* The path os.Create writes: a symlink at dst is followed.
RECURSIVE WritePathN(_, _, _)
WritePathN(f, p, n) ==
    IF p \in DOMAIN f /\ f[p].kind = "link"
    THEN IF n = 0 THEN NoPath ELSE WritePathN(f, f[p].target, n - 1)
    ELSE p

\* The faults the environment can inject into one step (a permission, a
\* full disk, an I/O error), named by the call that fails.
Faults == {"mkdir", "open", "write", "chmod", "mkdirLink", "lstat", "remove", "symlink"}

\* copyFileContents(src, dst): stat and open src, create (truncate) dst,
\* copy, close, chmod. [err, fs].
copyFileContents(f, src, dst, fault) ==
    LET s == Resolve(f, src)
        w == WritePathN(f, dst, MaxLinkDepth)
    IN  IF s = NoPath \/ fault = "open" THEN [err |-> TRUE, fs |-> f]
        ELSE IF w = NoPath \/ w = <<>> \/ ~IsDirAt(f, DirOf(w))
                \/ (w \in DOMAIN f /\ f[w].kind = "dir")
        THEN [err |-> TRUE, fs |-> f]
        ELSE After(Put(f, w, FileE("")),
                   LAMBDA f1 : IF f1[s].kind # "file" \/ fault = "write"
                               THEN [err |-> TRUE, fs |-> f1]
                               ELSE [err |-> fault = "chmod",
                                     fs  |-> Put(f1, w, FileE(f1[s].data))])

\* A variant of copyRepoToStore that keeps a cache file that exists.
copyRepoToStoreIfAbsent(f, src, dst, fault) ==
    After(MkdirAll(f, DirOf(dst), fault = "mkdir"),
          LAMBDA m : IF m.err THEN [err |-> TRUE, fs |-> f]
                     ELSE IF dst \in DOMAIN m.fs THEN [err |-> FALSE, fs |-> m.fs]
                     ELSE copyFileContents(m.fs, src, dst, fault))

\* copyRepoToStore(src, dst).
copyRepoToStore(f, src, dst, fault) ==
    After(MkdirAll(f, DirOf(dst), fault = "mkdir"),
          LAMBDA m : IF m.err THEN [err |-> TRUE, fs |-> f]
                     ELSE copyFileContents(m.fs, src, dst, fault))

(***************************************************************************)
(* Standard input: a read (ReadString) returns the next line with its      *)
(* terminator, or the empty string at the end of the input.                *)
(***************************************************************************)

\* prompt, on what the read returned.
prompt(read) == TrimRight(read, {"\r", "\n"})

\* confirm, on what the read returned.
confirm(read) == ToLower(TrimSpace(prompt(read))) \in {"y", "yes"}

\* A variant of handleExisting that removes what exists without asking;
\* C4_DeclineKeepsDestination tells it from handleExisting.
handleExistingUnasked(f, path, force, read, fault) ==
    IF fault = "lstat" THEN [res |-> "err", fs |-> f, asked |-> 0]
    ELSE IF path \notin DOMAIN f THEN [res |-> "ok", fs |-> f, asked |-> 0]
    ELSE After(Remove(f, path, fault = "remove"), LAMBDA rm :
             IF rm.err THEN [res |-> "err", fs |-> f, asked |-> 0]
             ELSE [res |-> "ok", fs |-> rm.fs, asked |-> 0])

\* handleExisting(path, force), where a prompt reads `read`: [res, fs,
\* asked]; res is "ok", "skip" (the user declined) or "err"; asked is the
\* number of prompts written.
handleExisting(f, path, force, read, fault) ==
    IF fault = "lstat" THEN [res |-> "err", fs |-> f, asked |-> 0]
    ELSE IF path \notin DOMAIN f THEN [res |-> "ok", fs |-> f, asked |-> 0]
    ELSE LET n  == IF force THEN 0 ELSE 1
             rm == Remove(f, path, fault = "remove")
         IN  IF ~force /\ ~confirm(read) THEN [res |-> "skip", fs |-> f, asked |-> n]
             ELSE IF rm.err THEN [res |-> "err", fs |-> f, asked |-> n]
             ELSE [res |-> "ok", fs |-> rm.fs, asked |-> n]

\* copyStoreToRepo(src, dst, force): [res, fs, asked].
copyStoreToRepo(f, src, dst, force, read, fault) ==
    After(MkdirAll(f, DirOf(dst), fault = "mkdir"), LAMBDA m :
        IF m.err THEN [res |-> "err", fs |-> f, asked |-> 0]
        ELSE After(handleExisting(m.fs, dst, force, read, fault), LAMBDA h :
                 IF h.res # "ok" THEN h
                 ELSE After(copyFileContents(h.fs, src, dst, fault), LAMBDA c :
                          [res |-> IF c.err THEN "err" ELSE "ok", fs |-> c.fs,
                           asked |-> h.asked])))

\* A variant of ensureWorktreeLink without the test for a link that is
\* already right; C2_RelinkRewritesCacheOnly tells it from
\* ensureWorktreeLink.
ensureWorktreeLinkAnew(f, target, link, force, read, fault) ==
    After(MkdirAll(f, DirOf(link), fault = "mkdirLink"), LAMBDA m :
        IF m.err THEN [res |-> "err", fs |-> f, asked |-> 0, noop |-> FALSE]
        ELSE After(handleExistingUnasked(m.fs, link, force, read, fault), LAMBDA h :
                 IF h.res # "ok"
                 THEN [res |-> h.res, fs |-> h.fs, asked |-> h.asked, noop |-> FALSE]
                 ELSE [res |-> IF fault = "symlink" THEN "err" ELSE "ok",
                       fs  |-> IF fault = "symlink" THEN h.fs
                               ELSE Put(h.fs, link, LinkE(target)),
                       asked |-> h.asked, noop |-> FALSE]))

\* ensureWorktreeLink(target, link, force): [res, fs, asked, noop]; noop:
\* the link was already there and nothing was done.
ensureWorktreeLink(f, target, link, force, read, fault) ==
    After(MkdirAll(f, DirOf(link), fault = "mkdirLink"), LAMBDA m :
        IF m.err THEN [res |-> "err", fs |-> f, asked |-> 0, noop |-> FALSE]
        ELSE IF link \in DOMAIN m.fs /\ fault # "lstat"
                /\ m.fs[link].kind = "link" /\ m.fs[link].target = target
        THEN [res |-> "ok", fs |-> m.fs, asked |-> 0, noop |-> TRUE]
        ELSE After(handleExisting(m.fs, link, force, read, fault), LAMBDA h :
                 IF h.res # "ok"
                 THEN [res |-> h.res, fs |-> h.fs, asked |-> h.asked, noop |-> FALSE]
                 ELSE IF fault = "symlink" \/ link \in DOMAIN h.fs
                 THEN [res |-> "err", fs |-> h.fs, asked |-> h.asked, noop |-> FALSE]
                 ELSE [res |-> "ok", fs |-> Put(h.fs, link, LinkE(target)),
                       asked |-> h.asked, noop |-> FALSE]))

(***************************************************************************)
(* The planner (sync.go, buildSyncPlan, buildPushPlan, sortPlan).          *)
(***************************************************************************)

\* The entries of a directory in the order of their names (os.ReadDir).
Children(f, d) == {q \in DOMAIN f : Len(q) = Len(d) + 1 /\ DirOf(q) = d}

RECURSIVE SortedPaths(_)
SortedPaths(S) ==
    IF S = {} THEN <<>>
    ELSE LET m == CHOOSE x \in S : \A y \in S \ {x} : StrLess(BaseOf(x), BaseOf(y))
         IN  <<m>> \o SortedPaths(S \ {m})

SkippedDirs == {".git", "node_modules"}

\* filepath.WalkDir with the callback of the planner: the non-directory
\* entries in walk order; a directory named .git or node_modules is not
\* entered. Symlinks are not followed.
RECURSIVE WalkFrom(_, _)
RECURSIVE WalkList(_, _)
WalkFrom(f, p) ==
    IF f[p].kind = "dir"
    THEN IF BaseOf(p) \in SkippedDirs THEN <<>>
         ELSE WalkList(f, SortedPaths(Children(f, p)))
    ELSE <<p>>

WalkList(f, paths) ==
    IF paths = <<>> THEN <<>>
    ELSE WalkFrom(f, paths[1]) \o WalkList(f, Tail(paths))

\* sortPlan: insertion sort by rel; the item moves down while the one
\* before it has a greater rel.
RECURSIVE InsertItem(_, _)
InsertItem(sorted, it) ==
    IF sorted # <<>> /\ StrLess(it.rel, sorted[Len(sorted)].rel)
    THEN Append(InsertItem(SubSeq(sorted, 1, Len(sorted) - 1), it), sorted[Len(sorted)])
    ELSE Append(sorted, it)

RECURSIVE SortFrom(_, _)
SortFrom(sorted, items) ==
    IF items = <<>> THEN sorted
    ELSE SortFrom(InsertItem(sorted, items[1]), Tail(items))

sortPlan(items) == SortFrom(<<>>, items)

\* A variant of Selected that does not look at the exclude patterns;
\* C5_PlannedIffSelected tells it from Selected.
SelectedByInclude(include, exclude, rel) == matchesAny(include, rel)

\* The include / exclude test of the walk callback.
Selected(include, exclude, rel) ==
    ~(~matchesAny(include, rel) \/ matchesAny(exclude, rel))

\* filepath.Rel(root, path) for a path the walk of root yields: its
\* components below the root, "." for the root itself.
RelOS(root, path) ==
    IF path = root THEN "." ELSE JoinStr(SubSeq(path, Len(root) + 1, Len(path)), "/")

\* filepath.Join(root, relOS) of a clean root.
JoinRel(root, relOS) == PathOf(PathStr(root) \o "/" \o relOS)

RECURSIVE SyncItems(_, _, _, _, _, _)
SyncItems(paths, root, worktreeRoot, store, include, exclude) ==
    IF paths = <<>> THEN <<>>
    ELSE LET path  == paths[1]
             relOS == RelOS(root, path)
             rel   == ToSlash(relOS)
             dest  == JoinRel(worktreeRoot, relOS)
             rest  == SyncItems(Tail(paths), root, worktreeRoot, store, include, exclude)
         IN  IF ~Selected(include, exclude, rel) THEN rest
             ELSE IF path = dest THEN rest
             ELSE <<[rel |-> rel, repoAbs |-> path, storeAbs |-> JoinRel(store, relOS),
                     worktreeAbs |-> dest]>> \o rest

\* buildSyncPlan: [err, plan]; the walk fails when the root cannot be read.
buildSyncPlan(f, repoRootStr, worktreeRootStr, storeRootStr, cfg, walkFails) ==
    LET root == PathOf(repoRootStr)
    IN  IF walkFails \/ root \notin DOMAIN f THEN [err |-> TRUE, plan |-> <<>>]
        ELSE [err  |-> FALSE,
              plan |-> sortPlan(SyncItems(WalkFrom(f, root), root, PathOf(worktreeRootStr),
                                          PathOf(storeRootStr),
                                          normalizePatterns(cfg.Include),
                                          normalizePatterns(cfg.Exclude)))]

RECURSIVE PushItems(_, _, _, _, _)
PushItems(paths, store, root, include, exclude) ==
    IF paths = <<>> THEN <<>>
    ELSE LET path  == paths[1]
             relOS == RelOS(store, path)
             rel   == ToSlash(relOS)
             rest  == PushItems(Tail(paths), store, root, include, exclude)
         IN  IF ~Selected(include, exclude, rel) THEN rest
             ELSE <<[rel |-> rel, repoAbs |-> JoinRel(root, relOS), storeAbs |-> path,
                     worktreeAbs |-> NoPath]>> \o rest

\* buildPushPlan: [err, plan].
buildPushPlan(f, storeRootStr, repoRootStr, cfg, walkFails) ==
    LET store == PathOf(storeRootStr)
    IN  IF walkFails \/ store \notin DOMAIN f THEN [err |-> TRUE, plan |-> <<>>]
        ELSE [err  |-> FALSE,
              plan |-> sortPlan(PushItems(WalkFrom(f, store), store, PathOf(repoRootStr),
                                          normalizePatterns(cfg.Include),
                                          normalizePatterns(cfg.Exclude)))]

(***************************************************************************)
(* The command line (main.go; sync.go, parseOptions and pickWorktree).     *)
(***************************************************************************)

Digits == "0123456789"

IsDigit(c) == \E i \in 1..Len(Digits) : CharAt(Digits, i) = c

DigitVal(c) == (CHOOSE i \in 1..Len(Digits) : CharAt(Digits, i) = c) - 1

RECURSIVE DigitsVal(_, _)
DigitsVal(s, acc) ==
    IF s = "" THEN acc ELSE DigitsVal(Tail(s), 10 * acc + DigitVal(CharAt(s, 1)))

AllDigits(s) == s # "" /\ \A i \in 1..Len(s) : IsDigit(CharAt(s, i))

\* strconv.Atoi: an optional sign and decimal digits. [err, n].
Atoi(s) ==
    LET signed == s # "" /\ CharAt(s, 1) \in {"+", "-"}
        body   == IF signed THEN Tail(s) ELSE s
    IN  IF ~AllDigits(body) THEN [err |-> TRUE, n |-> 0]
        ELSE [err |-> FALSE,
              n   |-> IF signed /\ CharAt(s, 1) = "-" THEN 0 - DigitsVal(body, 0)
                      ELSE DigitsVal(body, 0)]

\* strconv.ParseBool. [err, b].
ParseBool(s) ==
    IF s \in {"1", "t", "T", "TRUE", "true", "True"} THEN [err |-> FALSE, b |-> TRUE]
    ELSE IF s \in {"0", "f", "F", "FALSE", "false", "False"} THEN [err |-> FALSE, b |-> FALSE]
    ELSE [err |-> TRUE, b |-> FALSE]

NoOptions ==
    [repoHint |-> "", worktreeNum |-> 0, destOverride |-> "", yes |-> FALSE, force |-> FALSE]

BoolFlags == {"yes", "force"}
ValueFlags == {"repo", "worktree", "dest"}

\* The position of the first '=' of a flag name from its second character
\* on, 0 when there is none.
EqualsAt(name) ==
    IF \E i \in 2..Len(name) : CharAt(name, i) = "="
    THEN CHOOSE i \in 2..Len(name) :
            CharAt(name, i) = "=" /\ \A j \in 2..(i - 1) : CharAt(name, j) # "="
    ELSE 0

\* One flag set into the options. [err, opts].
SetFlag(opts, name, value) ==
    IF name = "repo" THEN [err |-> FALSE, opts |-> [opts EXCEPT !.repoHint = value]]
    ELSE IF name = "dest" THEN [err |-> FALSE, opts |-> [opts EXCEPT !.destOverride = value]]
    \* an int flag: strconv.ParseInt, which on decimal digits is Atoi
    ELSE IF name = "worktree"
         THEN [err |-> Atoi(value).err,
               opts |-> [opts EXCEPT !.worktreeNum = Atoi(value).n]]
    ELSE IF name = "yes"
         THEN [err |-> ParseBool(value).err, opts |-> [opts EXCEPT !.yes = ParseBool(value).b]]
    ELSE [err |-> ParseBool(value).err, opts |-> [opts EXCEPT !.force = ParseBool(value).b]]

\* flag.FlagSet.Parse with the five flags of parseOptions: parsing stops at
\* the first argument that is no flag. [err, opts].
RECURSIVE ParseFlags(_, _)
ParseFlags(args, opts) ==
    IF args = <<>> THEN [err |-> FALSE, opts |-> opts]
    ELSE LET s == args[1] IN
         IF Len(s) < 2 \/ CharAt(s, 1) # "-" THEN [err |-> FALSE, opts |-> opts]
         ELSE LET minuses == IF CharAt(s, 2) = "-" THEN 2 ELSE 1
                  full    == SubSeq(s, minuses + 1, Len(s))
                  eq      == EqualsAt(full)
                  name    == IF eq = 0 THEN full ELSE SubSeq(full, 1, eq - 1)
                  value   == IF eq = 0 THEN "" ELSE SubSeq(full, eq + 1, Len(full))
              IN  IF minuses = 2 /\ Len(s) = 2 THEN [err |-> FALSE, opts |-> opts]
                  ELSE IF full = "" \/ CharAt(full, 1) \in {"-", "="}
                  THEN [err |-> TRUE, opts |-> NoOptions]
                  ELSE IF name \notin BoolFlags \cup ValueFlags
                  THEN [err |-> TRUE, opts |-> NoOptions]
                  ELSE IF name \in BoolFlags
                  THEN LET r == SetFlag(opts, name, IF eq = 0 THEN "true" ELSE value)
                       IN  IF r.err THEN [err |-> TRUE, opts |-> NoOptions]
                           ELSE ParseFlags(Tail(args), r.opts)
                  ELSE IF eq = 0 /\ Len(args) < 2 THEN [err |-> TRUE, opts |-> NoOptions]
                  ELSE LET r == SetFlag(opts, name, IF eq = 0 THEN args[2] ELSE value)
                           rest == IF eq = 0 THEN Tail(Tail(args)) ELSE Tail(args)
                       IN  IF r.err THEN [err |-> TRUE, opts |-> NoOptions]
                           ELSE ParseFlags(rest, r.opts)

\* parseOptions(command, args).
parseOptions(args) == ParseFlags(args, NoOptions)

NoWorktree == [Path |-> "", Branch |-> "", Head |-> ""]

\* The index of the first listed worktree whose path is dest, 0 when none.
DestIndex(list, dest) ==
    IF \E i \in 1..Len(list) : samePath(list[i].Path, dest)
    THEN CHOOSE i \in 1..Len(list) :
            /\ samePath(list[i].Path, dest)
            /\ \A j \in 1..(i - 1) : ~samePath(list[j].Path, dest)
    ELSE 0

\* pickWorktree up to its prompt loop: mode is "picked", "failed" or
\* "interactive".
pickExplicit(list, destOverride, worktreeNum) ==
    IF destOverride # ""
    THEN IF DestIndex(list, destOverride) # 0
         THEN [mode |-> "picked", wt |-> list[DestIndex(list, destOverride)]]
         ELSE [mode |-> "failed", wt |-> NoWorktree]
    ELSE IF worktreeNum # 0
    THEN IF worktreeNum < 1 \/ worktreeNum > Len(list)
         THEN [mode |-> "failed", wt |-> NoWorktree]
         ELSE [mode |-> "picked", wt |-> list[worktreeNum]]
    ELSE [mode |-> "interactive", wt |-> NoWorktree]

\* A variant of pickEntry that takes an entry below 1 for the first
\* worktree; C9_InvalidEntryReprompts tells it from pickEntry.
pickEntryClamped(list, line) ==
    IF ~Atoi(TrimSpace(line)).err /\ Atoi(TrimSpace(line)).n <= Len(list)
    THEN (IF Atoi(TrimSpace(line)).n >= 1 THEN Atoi(TrimSpace(line)).n ELSE 1)
    ELSE 0

\* One round of the prompt loop of pickWorktree on the line read: the
\* index selected, 0 for an invalid entry.
pickEntry(list, line) ==
    LET a == Atoi(TrimSpace(line))
    IN  IF ~a.err /\ a.n >= 1 /\ a.n <= Len(list) THEN a.n ELSE 0

(***************************************************************************)
(* gitx: the worktree list of `git worktree list --porcelain`.             *)
(***************************************************************************)

\* The parser before the first line: no record finished, none open.  cur is
\* the open record (the pointer cur), <<>> while it is nil.
NoRecords == [out |-> <<>>, cur |-> <<>>]

\* One iteration of the loop of parseWorktreePorcelain, on the trimmed line.
ParseLine(st, line) ==
    IF line = "" THEN st
    ELSE IF HasPrefix(line, "worktree ")
    THEN [out |-> st.out \o st.cur,
          cur |-> <<[Path |-> TrimSpace(TrimPrefix(line, "worktree ")),
                     Branch |-> "", Head |-> ""]>>]
    ELSE IF HasPrefix(line, "branch ")
    THEN IF st.cur = <<>> THEN st
         ELSE [st EXCEPT !.cur[1].Branch = TrimSpace(TrimPrefix(line, "branch "))]
    ELSE IF HasPrefix(line, "HEAD ")
    THEN IF st.cur = <<>> THEN st
         ELSE [st EXCEPT !.cur[1].Head = TrimSpace(TrimPrefix(line, "HEAD "))]
    ELSE st

RECURSIVE ParseLines(_, _)
ParseLines(lines, st) ==
    IF lines = <<>> THEN st
    ELSE ParseLines(Tail(lines), ParseLine(st, TrimSpace(lines[1])))

\* What parseWorktreePorcelain returns for the records out.
Parsed(out) == [err |-> out = <<>>, out |-> out]

\* parseWorktreePorcelain without the append of the record open at the end
\* of the text.
parseWorktreePorcelainUnflushed(s) ==
    Parsed(ParseLines(Split(s, "\n"), NoRecords).out)

ParsedOf(st) == Parsed(st.out \o st.cur)

parseWorktreePorcelain(s) == ParsedOf(ParseLines(Split(s, "\n"), NoRecords))

\* What git prints for a list of worktrees: a record per worktree, closed by
\* an empty line, with `detached` in place of the branch of a detached HEAD.
RECURSIVE Porcelain(_)
Porcelain(list) ==
    IF list = <<>> THEN ""
    ELSE "worktree " \o list[1].Path \o "\n"
         \o "HEAD " \o list[1].Head \o "\n"
         \o (IF list[1].Branch = "" THEN "detached" ELSE "branch " \o list[1].Branch) \o "\n"
         \o "\n" \o Porcelain(Tail(list))

(***************************************************************************)
(* The state of one wtm process and of the filesystem it works on.         *)
(***************************************************************************)

VARIABLES
    pc,         \* where the process is: "start", "lookup", "pick", "prompt",
                \* "selected", "confirm", "loop", "exit"
    argv,       \* os.Args[1:]
    cmd,        \* the command dispatched: "sync", "push", "version" or ""
    opts,       \* syncOptions
    stdin,      \* standard input: "open", or "eof" once a read met its end
    asked,      \* prompts written by this invocation (saturating at MaxAsked)
    entry,      \* what the selection prompt read last
    repoRoot,   \* what gitx.RepoRoot returns
    home,       \* $HOME
    gitOut,     \* what `git worktree list --porcelain` prints
    wts,        \* what gitx.ListWorktrees returns
    worktree,   \* the worktree pickWorktree returned
    exitCode,   \* the exit status, -1 while the process runs
    errKind,    \* which error ended the process, "" when none
    fs,         \* the filesystem
    cfgFile,    \* the config file at the repo root
    loaded,     \* config.Loaded, with done = FALSE until Load has run
    storeRoot,  \* the cache root, "" until derived
    plan,       \* the plan
    idx,        \* the index of the next plan item
    copied, linked, skipped, pushed,    \* the tallies
    tallied,    \* TRUE once the final tally is printed
    attempted,  \* the rel of every item the loop has worked on, in order
    last,       \* the outcome of the item worked on last
    pre,        \* the filesystem before the item worked on last
    start,      \* the filesystem when this invocation began
    prevRun,    \* the previous invocation
    edited,     \* a file was edited since the previous invocation ended
    faults,     \* faults injected so far
    runs        \* invocations so far

vars == <<pc, argv, cmd, opts, stdin, asked, entry, repoRoot, home, gitOut, wts, worktree, exitCode,
          errKind, fs, cfgFile, loaded, storeRoot, plan, idx, copied, linked, skipped,
          pushed, tallied, attempted, last, pre, start, prevRun, edited, faults, runs>>

envVars == <<repoRoot, home, gitOut, wts, cfgFile>>
tallyVars == <<copied, linked, skipped, pushed, tallied>>
histVars == <<entry, attempted, last, pre, start, prevRun, edited, runs>>
planVars == <<loaded, storeRoot, plan, idx>>

\* Bounds of the model.
MaxFaults == 1
MaxRuns == 2
MaxAsked == 3

NotLoaded == [done |-> FALSE, Config |-> [Include |-> <<>>, Exclude |-> <<>>], Source |-> ""]
NoLast == [rel |-> "", res |-> "", noop |-> FALSE, asked |-> 0]
NoRun == [cmd |-> "", complete |-> FALSE, sources |-> {}, fsStart |-> <<>>,
          editedAfter |-> FALSE]

Exit(code, kind) == pc' = "exit" /\ exitCode' = code /\ errKind' = kind

Bump(n) == IF n < MaxAsked THEN n + 1 ELSE n

\* main: the dispatch on os.Args[1], with parseOptions and usageError of the
\* command dispatched to.
Main ==
    /\ pc = "start"
    /\ IF Len(argv) < 1 THEN Exit(2, "nocommand") /\ UNCHANGED <<cmd, opts>>
       ELSE IF argv[1] \in {"sync", "push"}
       THEN LET r == parseOptions(Tail(argv)) IN
            /\ cmd' = argv[1]
            /\ IF r.err THEN Exit(1, "usage") /\ UNCHANGED opts
               ELSE pc' = "lookup" /\ opts' = r.opts /\ UNCHANGED <<exitCode, errKind>>
       ELSE IF argv[1] = "version"
       THEN Exit(0, "") /\ cmd' = "version" /\ UNCHANGED opts
       ELSE Exit(2, "unknown") /\ UNCHANGED <<cmd, opts>>
    /\ UNCHANGED <<argv, stdin, asked, worktree, fs, faults>>
    /\ UNCHANGED <<envVars, planVars, tallyVars, histVars>>

\* Run / Push: gitx.RepoRoot and gitx.ListWorktrees, which fail when git does
\* or when its output holds no worktree.
Lookup ==
    /\ pc = "lookup"
    /\ \E gitFails \in BOOLEAN :
       \E r \in {parseWorktreePorcelain(gitOut)} :
          IF gitFails \/ r.err THEN Exit(1, "lookup") /\ UNCHANGED wts
          ELSE pc' = "pick" /\ wts' = r.out /\ UNCHANGED <<exitCode, errKind>>
    /\ UNCHANGED <<argv, cmd, opts, stdin, asked, worktree, fs, faults>>
    /\ UNCHANGED <<repoRoot, home, gitOut, cfgFile, planVars, tallyVars, histVars>>

\* pickWorktree up to its prompt loop.
PickExplicit ==
    /\ pc = "pick"
    /\ LET r == pickExplicit(wts, opts.destOverride, opts.worktreeNum) IN
          IF r.mode = "picked"
          THEN pc' = "selected" /\ worktree' = r.wt /\ UNCHANGED <<exitCode, errKind>>
          ELSE IF r.mode = "failed"
          THEN Exit(1, "select") /\ UNCHANGED worktree
          ELSE pc' = "prompt" /\ UNCHANGED <<worktree, exitCode, errKind>>
    /\ UNCHANGED <<argv, cmd, opts, stdin, asked, fs, faults>>
    /\ UNCHANGED <<envVars, planVars, tallyVars, histVars>>

\* What a read of standard input can return: a line the user types, or the
\* empty string at the end of the input, and from then on.
Reads(typed) == IF stdin = "eof" THEN {""} ELSE typed \cup {""}

AfterRead(read) == IF read = "" THEN "eof" ELSE stdin

\* What the user types at the selection prompt and at a yes/no prompt.
Entries == {"2\n", " +1 \r\n", "3", "0\n", "7\n", "-1\n", "x\n", "\n"}
Answers == {" Yes\r\n", "n\n"}

\* One round of the prompt loop of pickWorktree.
PickPrompt ==
    /\ pc = "prompt"
    /\ \E read \in Reads(Entries) :
       LET k == pickEntry(wts, prompt(read))
       IN  /\ stdin' = AfterRead(read)
           /\ asked' = Bump(asked)
           /\ entry' = read
           /\ IF k # 0 THEN pc' = "selected" /\ worktree' = wts[k]
              ELSE pc' = "prompt" /\ UNCHANGED worktree
    /\ UNCHANGED <<argv, cmd, opts, exitCode, errKind, fs, faults>>
    /\ UNCHANGED <<envVars, planVars, tallyVars>>
    /\ UNCHANGED <<attempted, last, pre, start, prevRun, edited, runs>>

\* Run / Push from the selection to the loop: the self-target check of
\* sync, config.Load, storeRootPath, the store check of push, the plan.
\* Run / Push once the plan is built (bp).
Planned(bp) ==
    IF bp.err THEN Exit(1, "walk") /\ UNCHANGED plan
    ELSE /\ plan' = bp.plan
         /\ IF Len(bp.plan) = 0 THEN Exit(0, "")
            ELSE /\ pc' = IF opts.yes THEN "loop" ELSE "confirm"
                 /\ UNCHANGED <<exitCode, errKind>>

\* Run / Push once the configuration is loaded (ld) and the cache root
\* derived (sr).
Prepared(ld, sr, walkFails) ==
    IF ld.err
    THEN Exit(1, "config") /\ UNCHANGED <<loaded, storeRoot, plan>>
    ELSE /\ loaded' = [done |-> TRUE, Config |-> ld.Config, Source |-> ld.Source]
         /\ IF sr.err THEN Exit(1, "home") /\ UNCHANGED <<storeRoot, plan>>
            ELSE /\ storeRoot' = sr.path
                 /\ IF cmd = "sync"
                    THEN Planned(buildSyncPlan(fs, repoRoot, worktree.Path, sr.path,
                                               ld.Config, walkFails))
                    ELSE IF Resolve(fs, PathOf(sr.path)) = NoPath
                    THEN Exit(1, "nostore") /\ UNCHANGED plan
                    ELSE Planned(buildPushPlan(fs, sr.path, repoRoot, ld.Config,
                                               walkFails))

\* Run and Push from the selected worktree to the plan: the self-sync
\* check, config.Load, storeRootPath, the plan.
Prepare ==
    /\ pc = "selected"
    /\ \E walkFails \in BOOLEAN :
          /\ walkFails => faults < MaxFaults
          /\ faults' = IF walkFails THEN faults + 1 ELSE faults
          /\ IF cmd = "sync" /\ samePath(repoRoot, worktree.Path)
             THEN Exit(1, "self") /\ UNCHANGED <<loaded, storeRoot, plan>>
             ELSE Prepared(Load(repoRoot, cfgFile),
                           storeRootPath(home, repoRoot, worktree.Path), walkFails)
    /\ idx' = 1
    /\ UNCHANGED <<argv, cmd, opts, stdin, asked, worktree, fs>>
    /\ UNCHANGED <<envVars, tallyVars, histVars>>

\* The global confirmation.
Confirm ==
    /\ pc = "confirm"
    /\ \E read \in Reads(Answers) :
          /\ stdin' = AfterRead(read)
          /\ asked' = Bump(asked)
          /\ IF confirm(read) THEN pc' = "loop" /\ UNCHANGED <<exitCode, errKind>>
             ELSE Exit(0, "")
    /\ UNCHANGED <<argv, cmd, opts, worktree, fs, faults>>
    /\ UNCHANGED <<envVars, planVars, tallyVars, histVars>>

\* The outcomes of an item that failed.
FailedRes == {"copyerr", "linkerr", "pusherr"}

\* The faults one step can meet: none once the budget is spent.
StepFaults == IF faults < MaxFaults THEN Faults \cup {"none"} ELSE {"none"}

\* What the prompt of one step can read; with --force no step prompts.
StepReads == IF opts.force THEN {""} ELSE Reads(Answers)

\* One iteration of the loop of Run.
SyncItemWith(fault, read) ==
    LET it == plan[idx] IN
    \E c \in {copyRepoToStore(fs, it.repoAbs, it.storeAbs, fault)} :
    \E l \in {ensureWorktreeLink(c.fs, it.storeAbs, it.worktreeAbs, opts.force, read, fault)} :
        /\ IF c.err
           THEN /\ fs' = c.fs
                /\ skipped' = skipped + 1
                /\ last' = [rel |-> it.rel, res |-> "copyerr", noop |-> FALSE, asked |-> 0]
                /\ UNCHANGED <<copied, linked, stdin, asked>>
           ELSE /\ copied' = copied + 1
                /\ fs' = l.fs
                /\ stdin' = IF l.asked > 0 THEN AfterRead(read) ELSE stdin
                /\ asked' = IF l.asked > 0 THEN Bump(asked) ELSE asked
                /\ last' = [rel |-> it.rel,
                            res |-> IF l.res = "ok" THEN "linked"
                                    ELSE IF l.res = "skip" THEN "declined" ELSE "linkerr",
                            noop |-> l.noop, asked |-> l.asked]
                /\ IF l.res = "ok" THEN linked' = linked + 1 /\ UNCHANGED skipped
                   ELSE skipped' = skipped + 1 /\ UNCHANGED linked
        /\ idx' = idx + 1
        /\ attempted' = Append(attempted, it.rel)
        /\ pre' = fs
        /\ faults' = IF fault # "none" /\ last'.res \in FailedRes THEN faults + 1 ELSE faults

SyncItem ==
    /\ pc = "loop" /\ cmd = "sync" /\ idx <= Len(plan)
    /\ \E fault \in StepFaults, read \in StepReads : SyncItemWith(fault, read)
    /\ UNCHANGED <<pc, argv, cmd, opts, worktree, exitCode, errKind, pushed, tallied>>
    /\ UNCHANGED <<envVars, loaded, storeRoot, plan, entry, start, prevRun, edited, runs>>

\* A variant of the loop of Push that does not count an item it fails to
\* copy.
PushItemWithUncounted(fault, read) ==
    LET it == plan[idx] IN
    \E c \in {copyStoreToRepo(fs, it.storeAbs, it.repoAbs, opts.force, read, fault)} :
        /\ fs' = c.fs
        /\ stdin' = IF c.asked > 0 THEN AfterRead(read) ELSE stdin
        /\ asked' = IF c.asked > 0 THEN Bump(asked) ELSE asked
        /\ last' = [rel |-> it.rel,
                    res |-> IF c.res = "ok" THEN "pushed"
                            ELSE IF c.res = "skip" THEN "declined" ELSE "pusherr",
                    noop |-> FALSE, asked |-> c.asked]
        /\ IF c.res = "ok" THEN pushed' = pushed + 1 /\ UNCHANGED skipped
           ELSE IF c.res = "skip" THEN skipped' = skipped + 1 /\ UNCHANGED pushed
           ELSE UNCHANGED <<pushed, skipped>>
        /\ idx' = idx + 1
        /\ attempted' = Append(attempted, it.rel)
        /\ pre' = fs
        /\ faults' = IF fault # "none" /\ last'.res \in FailedRes THEN faults + 1 ELSE faults

\* One iteration of the loop of Push.
PushItemWith(fault, read) ==
    LET it == plan[idx] IN
    \E c \in {copyStoreToRepo(fs, it.storeAbs, it.repoAbs, opts.force, read, fault)} :
        /\ fs' = c.fs
        /\ stdin' = IF c.asked > 0 THEN AfterRead(read) ELSE stdin
        /\ asked' = IF c.asked > 0 THEN Bump(asked) ELSE asked
        /\ last' = [rel |-> it.rel,
                    res |-> IF c.res = "ok" THEN "pushed"
                            ELSE IF c.res = "skip" THEN "declined" ELSE "pusherr",
                    noop |-> FALSE, asked |-> c.asked]
        /\ IF c.res = "ok" THEN pushed' = pushed + 1 /\ UNCHANGED skipped
           ELSE skipped' = skipped + 1 /\ UNCHANGED pushed
        /\ idx' = idx + 1
        /\ attempted' = Append(attempted, it.rel)
        /\ pre' = fs
        /\ faults' = IF fault # "none" /\ last'.res \in FailedRes THEN faults + 1 ELSE faults

PushItem ==
    /\ pc = "loop" /\ cmd = "push" /\ idx <= Len(plan)
    /\ \E fault \in StepFaults, read \in StepReads : PushItemWith(fault, read)
    /\ UNCHANGED <<pc, argv, cmd, opts, worktree, exitCode, errKind, copied, linked, tallied>>
    /\ UNCHANGED <<envVars, loaded, storeRoot, plan, entry, start, prevRun, edited, runs>>

\* A variant of Finish that returns from inside the loop;
\* C3_EveryItemInOrder tells it from Finish.
FinishEarly ==
    /\ pc = "loop"
    /\ tallied' = TRUE
    /\ Exit(0, "")
    /\ UNCHANGED <<argv, cmd, opts, stdin, asked, worktree, fs, faults>>
    /\ UNCHANGED <<envVars, planVars, copied, linked, skipped, pushed, histVars>>

\* The end of the loop: the tally is printed and the command returns nil.
Finish ==
    /\ pc = "loop" /\ idx > Len(plan)
    /\ tallied' = TRUE
    /\ Exit(0, "")
    /\ UNCHANGED <<argv, cmd, opts, stdin, asked, worktree, fs, faults>>
    /\ UNCHANGED <<envVars, planVars, copied, linked, skipped, pushed, histVars>>

(***************************************************************************)
(* The executor: invocations with an explicit --worktree, from the         *)
(* selection on, one after the other on the same filesystem.               *)
(***************************************************************************)

\* The repository /r with two config files and an example file, a worktree
\* nested in it (/r/wt), a sibling worktree (/w) and the home directory.
TheRepo == "/r"
TheHome == "/h"
TheWorktrees ==
    <<[Path |-> "/r", Branch |-> "refs/heads/main", Head |-> "1111111111"],
      [Path |-> "/r/wt", Branch |-> "refs/heads/feature", Head |-> "2222222222"],
      [Path |-> "/w", Branch |-> "", Head |-> "3333333333"]>>

RECURSIVE WithDirs(_, _)
WithDirs(f, dirs) ==
    IF dirs = <<>> THEN f ELSE WithDirs(MkdirAll(f, PathOf(dirs[1]), FALSE).fs, Tail(dirs))

RECURSIVE WithFiles(_, _)
WithFiles(f, files) ==
    IF files = <<>> THEN f
    ELSE WithFiles(Put(MkdirAll(f, DirOf(PathOf(files[1][1])), FALSE).fs,
                       PathOf(files[1][1]), files[1][2]),
                   Tail(files))

BaseTree ==
    WithFiles(WithDirs(<<>>, <<"/r", "/r/.git", "/r/wt", "/w", "/h">>),
              <<<<"/r/.env", FileE("A")>>,
                <<"/r/app/.env", FileE("C")>>,
                <<"/r/.env.example", FileE("X")>>>>)

\* What is at <worktree>/.env before the first invocation.
DestKinds == {"absent", "file", "link"}

TreeWith(wtPath, destKind) ==
    IF destKind = "file" THEN WithFiles(BaseTree, <<<<Join(<<wtPath, ".env">>), FileE("B")>>>>)
    ELSE IF destKind = "link"
    THEN WithFiles(BaseTree, <<<<"/h/other", FileE("O")>>,
                               <<Join(<<wtPath, ".env">>), LinkE(PathOf("/h/other"))>>>>)
    ELSE BaseTree

NumStr(k) == CharAt(Digits, k + 1)

ArgvOf(c, k, y, f) ==
    <<c, "--worktree", NumStr(k)>> \o (IF y THEN <<"--yes">> ELSE <<>>)
        \o (IF f THEN <<"--force">> ELSE <<>>)

\* The process where pickWorktree has returned, for the command line a.
Invoked(a) ==
    /\ argv = a
    /\ cmd = a[1]
    /\ opts = parseOptions(Tail(a)).opts
    /\ worktree = pickExplicit(wts, opts.destOverride, opts.worktreeNum).wt
    /\ stdin = "open"
    /\ asked = 0
    /\ entry = ""
    /\ pc = "selected"
    /\ exitCode = -1
    /\ errKind = ""
    /\ loaded = NotLoaded
    /\ storeRoot = ""
    /\ plan = <<>>
    /\ idx = 1
    /\ copied = 0 /\ linked = 0 /\ skipped = 0 /\ pushed = 0
    /\ tallied = FALSE
    /\ attempted = <<>>
    /\ last = NoLast

InitExec ==
    /\ repoRoot = TheRepo
    /\ home = TheHome
    /\ gitOut = Porcelain(TheWorktrees)
    /\ wts = TheWorktrees
    /\ cfgFile = [state |-> "absent", Include |-> <<>>, Exclude |-> <<>>]
    /\ \E c \in {"sync", "push"}, k \in 1..Len(TheWorktrees), y \in BOOLEAN, f \in BOOLEAN :
          /\ Invoked(ArgvOf(c, k, y, f))
          /\ \E d \in DestKinds : fs = TreeWith(TheWorktrees[k].Path, d)
    /\ pre = fs
    /\ start = fs
    /\ prevRun = NoRun
    /\ edited = FALSE
    /\ faults = 0
    /\ runs = 1

\* Between two invocations the user edits a synced file through its path in
\* the worktree.
Edit ==
    /\ pc = "exit" /\ runs < MaxRuns /\ ~edited
    /\ \E i \in 1..Len(plan) :
          /\ Resolve(fs, plan[i].worktreeAbs) # NoPath
          /\ fs[Resolve(fs, plan[i].worktreeAbs)].kind = "file"
          /\ fs' = Put(fs, Resolve(fs, plan[i].worktreeAbs), FileE("E"))
    /\ edited' = TRUE
    /\ UNCHANGED <<pc, argv, cmd, opts, stdin, asked, worktree, exitCode, errKind, faults>>
    /\ UNCHANGED <<envVars, planVars, tallyVars>>
    /\ UNCHANGED <<entry, attempted, last, pre, start, prevRun, runs>>

\* The next invocation, for the same worktree: main, the lookup and the
\* explicit selection of a new process.
Reinvoke ==
    /\ pc = "exit" /\ runs < MaxRuns
    /\ \E c \in {"sync", "push"}, y \in BOOLEAN, f \in BOOLEAN :
          /\ argv' = ArgvOf(c, opts.worktreeNum, y, f)
          /\ cmd' = c
          /\ opts' = parseOptions(Tail(argv')).opts
    /\ stdin' = "open"
    /\ asked' = 0
    /\ entry' = ""
    /\ pc' = "selected"
    /\ exitCode' = -1
    /\ errKind' = ""
    /\ loaded' = NotLoaded
    /\ storeRoot' = ""
    /\ plan' = <<>>
    /\ idx' = 1
    /\ copied' = 0 /\ linked' = 0 /\ skipped' = 0 /\ pushed' = 0
    /\ tallied' = FALSE
    /\ attempted' = <<>>
    /\ last' = NoLast
    /\ pre' = fs
    /\ start' = fs
    /\ prevRun' = [cmd |-> cmd,
                   complete |-> tallied /\ copied = Len(plan),
                   sources |-> {plan[i].repoAbs : i \in 1..Len(plan)},
                   fsStart |-> start,
                   editedAfter |-> edited]
    /\ edited' = FALSE
    /\ runs' = runs + 1
    /\ UNCHANGED <<worktree, fs, faults, envVars>>

NextExec == Prepare \/ Confirm \/ SyncItem \/ PushItem \/ Finish \/ Edit \/ Reinvoke

SpecExec == InitExec /\ [][NextExec]_vars

\* A running process takes its next step: the loop goes on to the next item
\* (whoever types at a prompt answers or closes the input) and to the tally.
SpecExecFair == SpecExec /\ WF_vars(SyncItem \/ PushItem \/ Finish)

(***************************************************************************)
(* Properties of the executor, under SpecExec.                             *)
(***************************************************************************)

\* The loop has just worked on an item: the item, and what was at its
\* worktree destination before.
Stepped == pc = "loop" /\ idx > 1
LastItem == plan[idx - 1]

\* Before the step, the destination of the item was a symlink to the cache
\* file of the item.
LinkedBefore ==
    /\ LastItem.worktreeAbs \in DOMAIN pre
    /\ pre[LastItem.worktreeAbs] = LinkE(LastItem.storeAbs)

\* Before the step, the destination of the item existed and was no symlink
\* to the cache file of the item.
OccupiedBefore ==
    /\ LastItem.worktreeAbs \in DOMAIN pre
    /\ pre[LastItem.worktreeAbs] # LinkE(LastItem.storeAbs)

\* The paths whose entry the step changed, created or removed.
Touched ==
    {q \in (DOMAIN fs) \cup (DOMAIN pre) :
        ~(q \in DOMAIN fs /\ q \in DOMAIN pre /\ fs[q] = pre[q])}

\* A push that ran to its tally with every item pushed and no fault, right
\* after a sync on the same worktree that ran to its tally with every item
\* copied, with no edit in between.
PushedAfterSync ==
    /\ cmd = "push" /\ tallied /\ pushed = Len(plan) /\ faults = 0
    /\ prevRun.cmd = "sync" /\ prevRun.complete /\ ~prevRun.editedAfter

\* C1: after a complete sync and then a push on the same worktree, with no
\* edit in between and every item pushed, every source path of the sync
\* holds the content it held before the sync.
C1_SyncThenPushRestores ==
    PushedAfterSync =>
        \A p \in prevRun.sources : Content(fs, p) = Content(prevRun.fsStart, p)

\* C2, as stated: a sync step on an item whose destination is already the
\* symlink to its cache file changes nothing in the filesystem and counts
\* the item as linked.
C2_RelinkTouchesNothing ==
    (Stepped /\ cmd = "sync" /\ LinkedBefore) => (fs = pre /\ last.res = "linked")

\* C2, amended: a sync step on an item whose destination is already the
\* symlink to its cache file never prompts, never declines, and changes at
\* most the cache file, which it rewrites; when the copy succeeds the cache
\* file holds the content of the repo source, the item is linked as a
\* no-op, and nothing else is touched.
C2_RelinkRewritesCacheOnly ==
    (Stepped /\ cmd = "sync" /\ LinkedBefore) =>
        /\ last.asked = 0
        /\ last.res # "declined"
        /\ Touched \subseteq {WritePathN(pre, LastItem.storeAbs, MaxLinkDepth)}
        /\ fs[LastItem.worktreeAbs] = pre[LastItem.worktreeAbs]
        /\ last.res # "copyerr" =>
              Content(fs, LastItem.storeAbs) = Content(pre, LastItem.repoAbs)
        /\ last.res \notin FailedRes => (last.res = "linked" /\ last.noop)

\* A sync without --force relinked an item as a no-op, rewriting a cache
\* file that had been edited.
C2_Witness ==
    /\ Stepped /\ cmd = "sync" /\ LinkedBefore /\ ~opts.force
    /\ last.res = "linked" /\ last.noop
    /\ fs # pre

\* Between the global confirmation and the tally the items attempted are
\* exactly the items of the plan before idx, in the order of the plan, which
\* is strictly ascending by relative path; the tally is printed only once
\* every item has been attempted.
LoopInOrder ==
    (pc = "loop" \/ tallied) =>
        /\ idx \in 1..(Len(plan) + 1)
        /\ attempted = [i \in 1..(idx - 1) |-> plan[i].rel]
        /\ \A i \in 1..Len(plan) : \A j \in (i + 1)..Len(plan) :
              StrLess(plan[i].rel, plan[j].rel)
        /\ tallied => Len(attempted) = Len(plan)

\* C3: in an invocation that passed the global confirmation every plan item
\* is attempted exactly once, one at a time, in ascending order of relative
\* path; whatever the outcome of an item (a copy error, a link error, a
\* declined overwrite) the loop stays in the loop with the next item; and
\* the loop always reaches the final tally.
C3_EveryItemInOrder ==
    /\ []LoopInOrder
    /\ [][pc = "loop" => (pc' = "loop" /\ idx' = idx + 1) \/ tallied']_vars
    /\ (pc = "loop") ~> tallied

\* The tally printed after a copy error, a link error or a declined
\* overwrite on an item that was not the last.
C3_Witness ==
    /\ tallied /\ Len(plan) >= 2 /\ skipped >= 1 /\ skipped < Len(plan)
    /\ Len(attempted) = Len(plan)

\* The step about to be taken is a sync step without --force on an item
\* whose destination exists and is no symlink to its cache file.
AtOccupied ==
    /\ pc = "loop" /\ cmd = "sync" /\ ~opts.force /\ idx <= Len(plan)
    /\ plan[idx].worktreeAbs \in DOMAIN fs
    /\ fs[plan[idx].worktreeAbs] # LinkE(plan[idx].storeAbs)

\* C4: a sync step without --force on an item whose destination exists and
\* is no symlink to its cache file: unless the step fails before, the user
\* is asked; on a negative answer the destination entry stays what it was,
\* the item is counted as skipped and the loop goes on with the next item;
\* the entry is removed or replaced only after a confirmation, and an item
\* counted as linked has the symlink to its cache file at the destination.
C4_DeclineKeepsDestination ==
    [][AtOccupied =>
          /\ last'.res \in {"linked", "declined"} => last'.asked = 1
          /\ last'.res = "declined" =>
                /\ plan[idx].worktreeAbs \in DOMAIN fs'
                /\ fs'[plan[idx].worktreeAbs] = fs[plan[idx].worktreeAbs]
                /\ skipped' = skipped + 1 /\ linked' = linked
                /\ pc' = "loop" /\ idx' = idx + 1 /\ exitCode' = -1
          /\ last'.res = "linked" =>
                /\ fs'[plan[idx].worktreeAbs] = LinkE(plan[idx].storeAbs)
                /\ linked' = linked + 1 /\ skipped' = skipped
          /\ (plan[idx].worktreeAbs \notin DOMAIN fs'
                \/ fs'[plan[idx].worktreeAbs] # fs[plan[idx].worktreeAbs]) =>
                (last'.asked = 1 /\ last'.res # "declined")]_vars

\* The user declined the overwrite of an existing file.
C4_Witness ==
    /\ Stepped /\ cmd = "sync" /\ ~opts.force /\ OccupiedBefore
    /\ last.res = "declined"
    /\ pre[LastItem.worktreeAbs].kind = "file"

(***************************************************************************)
(* The command line: one invocation from main on, for a set of command     *)
(* lines, config files and inputs, on a tree where the repo root itself    *)
(* has a cache.                                                            *)
(***************************************************************************)

CliArgs ==
    {<<>>, <<"version">>, <<"status">>,
     <<"sync">>, <<"push">>,
     <<"sync", "--bogus">>, <<"push", "--worktree", "x">>, <<"sync", "--yes=maybe">>,
     <<"push", "--dest">>,
     <<"sync", "--worktree", "0">>, <<"push", "--worktree", "0">>,
     <<"sync", "--worktree", "-1">>, <<"push", "--worktree", "4">>,
     <<"sync", "--worktree", "1">>, <<"push", "--worktree", "1", "--yes">>,
     <<"push", "--worktree", "1">>,
     <<"sync", "-worktree=3", "-yes", "-force">>, <<"sync", "--worktree", "3">>,
     <<"sync", "--dest", "/w/", "--yes">>, <<"push", "--dest", "/r/wt/../wt">>,
     <<"sync", "--dest", "/nowhere">>, <<"push", "--dest", "w">>,
     <<"sync", "--dest", "/r", "--worktree", "3">>}

CliConfigs ==
    {[state |-> "absent", Include |-> <<>>, Exclude |-> <<>>],
     [state |-> "parsed", Include |-> <<"conf/**">>, Exclude |-> <<>>],
     [state |-> "malformed", Include |-> <<>>, Exclude |-> <<>>]}

CliTree == WithFiles(BaseTree, <<<<"/h/.wtm/configs/r/r/.env", FileE("S")>>>>)

Init ==
    /\ pc = "start"
    /\ argv \in CliArgs
    /\ cmd = ""
    /\ opts = NoOptions
    /\ stdin = "open"
    /\ asked = 0
    /\ entry = ""
    /\ repoRoot = TheRepo
    /\ home = TheHome
    /\ gitOut = Porcelain(TheWorktrees)
    /\ wts = <<>>
    /\ worktree = NoWorktree
    /\ exitCode = -1
    /\ errKind = ""
    /\ fs = CliTree
    /\ cfgFile \in CliConfigs
    /\ loaded = NotLoaded
    /\ storeRoot = ""
    /\ plan = <<>>
    /\ idx = 1
    /\ copied = 0 /\ linked = 0 /\ skipped = 0 /\ pushed = 0
    /\ tallied = FALSE
    /\ attempted = <<>>
    /\ last = NoLast
    /\ pre = fs
    /\ start = fs
    /\ prevRun = NoRun
    /\ edited = FALSE
    /\ faults = 0
    /\ runs = 1

Next ==
    \/ Main \/ Lookup \/ PickExplicit \/ PickPrompt
    \/ Prepare \/ Confirm \/ SyncItem \/ PushItem \/ Finish

SpecCli == Init /\ [][Next]_vars

(***************************************************************************)
(* Properties of the command line, under SpecCli.                          *)
(***************************************************************************)

\* The flag is on the command line, in one of the forms of the flag package.
FlagGiven(args, name) ==
    \E i \in 1..Len(args) :
        \/ args[i] \in {"--" \o name, "-" \o name}
        \/ HasPrefix(args[i], "--" \o name \o "=")
        \/ HasPrefix(args[i], "-" \o name \o "=")

\* The errors of the arguments: no command, an unknown command, flags that
\* do not parse.
ArgumentErrors == {"nocommand", "unknown", "usage"}

\* C6: the process exits 2 when its arguments are invalid (no command, an
\* unknown command, an unknown flag, a flag value that does not parse), 1 on
\* an operational error, and 0 on success, an empty plan included.
C6_ExitCodes ==
    pc = "exit" =>
        exitCode = (IF errKind \in ArgumentErrors THEN 2
                    ELSE IF errKind = "" THEN 0 ELSE 1)

\* The options are parsed, the selection is over (or at its prompt), and
\* the selection value given on the command line is invalid: a --dest that
\* is the path of no listed worktree, or, without --dest, a --worktree
\* outside 1..N.
SelectionOver == pc \notin {"start", "lookup", "pick"} /\ errKind \notin {"usage", "lookup"}
InvalidDest ==
    /\ opts.destOverride # ""
    /\ \A i \in 1..Len(wts) : Clean(wts[i].Path) # Clean(opts.destOverride)
InvalidNumber ==
    /\ opts.destOverride = ""
    /\ FlagGiven(Tail(argv), "worktree")
    /\ opts.worktreeNum \notin 1..Len(wts)

\* C7: an invalid --dest, or an invalid --worktree (0 and negative numbers
\* included), ends the command with the selection error: no worktree is
\* selected, no prompt is written.
C7_InvalidSelectionFails ==
    (cmd \in {"sync", "push"} /\ SelectionOver /\ (InvalidDest \/ InvalidNumber)) =>
        /\ pc = "exit" /\ exitCode = 1 /\ errKind = "select"
        /\ worktree = NoWorktree
        /\ asked = 0

\* The worktree selected is the repository root, and the command is past
\* the self-sync check.
RootSelected ==
    /\ pc \in {"confirm", "loop", "exit"}
    /\ worktree # NoWorktree
    /\ Clean(worktree.Path) = Clean(repoRoot)

\* C8: sync on the repository root ends with the self-sync error, with no
\* config loaded, no cache root derived, no plan and the filesystem as it
\* was; push on the repository root is not rejected: the config is loaded
\* and the plan, when there is one, is of paths of the repo root.
C8_SelfSyncRejected ==
    /\ (cmd = "sync" /\ RootSelected) =>
          /\ pc = "exit" /\ exitCode = 1 /\ errKind = "self"
          /\ loaded = NotLoaded /\ storeRoot = "" /\ plan = <<>>
          /\ fs = start
    /\ (cmd = "push" /\ RootSelected) =>
          /\ errKind # "self"
          /\ errKind # "config" => loaded.done
          /\ errKind \notin {"config", "home"} => storeRoot # ""
          /\ \A i \in 1..Len(plan) :
                plan[i].repoAbs = PathOf(repoRoot) \o Comps(plan[i].rel)

\* Sync was rejected for the repository root, selected at the prompt.
C8_Witness ==
    /\ cmd = "sync" /\ RootSelected /\ errKind = "self"
    /\ asked >= 1

\* The entry read at the selection prompt is an integer in 1..N.
ValidEntry(read) ==
    /\ ~Atoi(TrimSpace(TrimRight(read, {"\r", "\n"}))).err
    /\ Atoi(TrimSpace(TrimRight(read, {"\r", "\n"}))).n \in 1..Len(wts)

\* C9: at the selection prompt, an entry that is no integer in 1..N (the
\* empty read of an exhausted input included) leads to the prompt again,
\* with nothing selected and the process running; an entry that is one
\* selects exactly the worktree of that number; so at the end of the input
\* the prompt is never left.
C9_InvalidEntryReprompts ==
    [][pc = "prompt" =>
          /\ IF ValidEntry(entry')
             THEN /\ pc' = "selected"
                  /\ worktree' = wts[Atoi(TrimSpace(TrimRight(entry', {"\r", "\n"}))).n]
             ELSE /\ pc' = "prompt"
                  /\ worktree' = NoWorktree
                  /\ exitCode' = -1
          /\ stdin = "eof" => pc' = "prompt"]_vars

\* A worktree selected at the prompt by its number, after an invalid entry.
C9_Witness ==
    /\ pc = "selected" /\ asked >= 2
    /\ ValidEntry(entry) /\ worktree = wts[2]

(***************************************************************************)
(* The planner on its own: sync from the selection to the plan, for a set  *)
(* of config files, on trees with .git and node_modules directories.       *)
(***************************************************************************)

MatchConfigs ==
    {[state |-> "absent", Include |-> <<>>, Exclude |-> <<>>],
     [state |-> "parsed", Include |-> <<"**/.env">>, Exclude |-> <<>>],
     [state |-> "parsed", Include |-> <<" **/.env* ", "">>, Exclude |-> <<"apps/**">>],
     [state |-> "parsed", Include |-> <<"[", "*.env", ".env">>, Exclude |-> <<"**/x">>],
     [state |-> "parsed", Include |-> <<"**">>, Exclude |-> <<"**/.env.example", "a\\">>],
     [state |-> "parsed", Include |-> <<"apps/*/.env?example">>, Exclude |-> <<"[">>],
     [state |-> "parsed", Include |-> <<"**/.env*">>, Exclude |-> <<"**/.env", "\t">>],
     [state |-> "parsed", Include |-> <<"apps*/**">>, Exclude |-> <<"**/api/*">>]}

MatchTree ==
    WithFiles(WithDirs(<<>>, <<"/r", "/r/.git", "/r/wt", "/w", "/h">>),
              <<<<"/r/.env", FileE("A")>>,
                <<"/r/.env.example", FileE("X")>>,
                <<"/r/prod.env", FileE("P")>>,
                <<"/r/.git/.env", FileE("G")>>,
                <<"/r/apps/api/.env", FileE("C")>>,
                <<"/r/apps/api/.env.example", FileE("Y")>>,
                <<"/r/apps.old/.env", FileE("D")>>,
                <<"/r/apps/node_modules/pkg/.env", FileE("N")>>,
                <<"/r/apps/web/x", FileE("W")>>>>)

\* Trees that differ in what is under the worktree nested in the repo.
MatchTrees ==
    {MatchTree,
     WithFiles(MatchTree, <<<<"/r/wt/.env", FileE("B")>>>>),
     WithFiles(MatchTree, <<<<"/r/wt/.git", FileE("gitdir")>>,
                            <<"/r/wt/.env", LinkE(PathOf("/h/other"))>>>>),
     WithFiles(MatchTree, <<<<"/r/wt/node_modules", FileE("M")>>,
                            <<"/r/wt/apps/.env.local", FileE("L")>>>>)}

InitMatch ==
    /\ repoRoot = TheRepo
    /\ home = TheHome
    /\ gitOut = Porcelain(TheWorktrees)
    /\ wts = TheWorktrees
    /\ cfgFile \in MatchConfigs
    /\ \E k \in 2..Len(TheWorktrees), y \in BOOLEAN : Invoked(ArgvOf("sync", k, y, FALSE))
    /\ fs \in MatchTrees
    /\ pre = fs
    /\ start = fs
    /\ prevRun = NoRun
    /\ edited = FALSE
    /\ faults = 0
    /\ runs = 1

NextMatch == Prepare

SpecMatch == InitMatch /\ [][NextMatch]_vars

\* The plan is built.
PlanBuilt == pc \in {"confirm", "loop"} \/ (pc = "exit" /\ errKind = "" /\ loaded.done)

\* The non-directory entries under the repo root that are in no directory
\* named .git or node_modules.
WalkedFiles ==
    {q \in DOMAIN fs :
        /\ IsUnder(q, PathOf(repoRoot))
        /\ fs[q].kind # "dir"
        /\ \A i \in (Len(PathOf(repoRoot)) + 1)..(Len(q) - 1) : q[i] \notin SkippedDirs}

RelOf(q) == JoinStr(SubSeq(q, Len(PathOf(repoRoot)) + 1, Len(q)), "/")

\* The path matches one of the patterns of the list, as the config gives
\* them up to surrounding white space; a pattern whose match is an error
\* matches nothing.
Hits(patterns, rel) ==
    \E i \in 1..Len(patterns) :
        /\ Match(TrimSpace(patterns[i]), rel).ok
        /\ ~Match(TrimSpace(patterns[i]), rel).err

\* C5: the files of the plan are exactly the walked files whose relative
\* path matches an include pattern and no exclude pattern; a malformed
\* pattern matches nothing and does not fail the walk, which fails only
\* when the tree cannot be read.
C5_PlannedIffSelected ==
    /\ PlanBuilt =>
          \A q \in WalkedFiles \cup {plan[i].repoAbs : i \in 1..Len(plan)} :
              (\E i \in 1..Len(plan) : plan[i].repoAbs = q /\ plan[i].rel = RelOf(q))
              <=> /\ q \in WalkedFiles
                  /\ Hits(loaded.Config.Include, RelOf(q))
                  /\ ~Hits(loaded.Config.Exclude, RelOf(q))
    /\ (pc = "exit" /\ errKind = "walk") => faults > 0

\* Under the defaults apps/api/.env is planned and apps/api/.env.example,
\* which matches an include and an exclude pattern, is not.
C5_Witness ==
    /\ PlanBuilt /\ loaded.Source = "defaults"
    /\ Hits(loaded.Config.Include, "apps/api/.env.example")
    /\ Hits(loaded.Config.Exclude, "apps/api/.env.example")
    /\ \E i \in 1..Len(plan) : plan[i].rel = "apps/api/.env"
    /\ \A i \in 1..Len(plan) : plan[i].rel # "apps/api/.env.example"

(***************************************************************************)
(* The cache path on its own: from the selection to the plan, for a set of *)
(* repository roots and worktree paths.                                    *)
(***************************************************************************)

PathRoots == {"/r", "/srv/my repo", "/a/b"}
PathWorktrees ==
    {"/r/wt", "/r/wt/feature x", "/w", "/r-wt", "/a/b/c:d", "/a/bc", "/srv/my repo/wt",
     "/srv/wt", "/r"}

PathTree ==
    WithFiles(WithDirs(<<>>, <<"/h", "/r/wt/feature x", "/w", "/r-wt", "/a/b/c:d", "/a/bc",
                               "/srv/my repo/wt", "/srv/wt">>),
              <<<<"/r/.env", FileE("A")>>,
                <<"/srv/my repo/.env", FileE("A")>>,
                <<"/a/b/.env", FileE("A")>>>>)

InitPath ==
    /\ repoRoot \in PathRoots
    /\ home \in {TheHome, ""}
    /\ \E w \in PathWorktrees :
          wts = <<[Path |-> repoRoot, Branch |-> "refs/heads/main", Head |-> "1111111111"],
                  [Path |-> w, Branch |-> "refs/heads/feature", Head |-> "2222222222"]>>
    /\ gitOut = Porcelain(wts)
    /\ cfgFile = [state |-> "absent", Include |-> <<>>, Exclude |-> <<>>]
    /\ \E c \in {"sync", "push"} : Invoked(ArgvOf(c, 2, TRUE, TRUE))
    /\ fs = PathTree
    /\ pre = fs
    /\ start = fs
    /\ prevRun = NoRun
    /\ edited = FALSE
    /\ faults = 0
    /\ runs = 1

NextPath == Prepare

SpecPath == InitPath /\ [][NextPath]_vars

\* The worktree is under the repository root.
SubPath == IsUnder(PathOf(worktree.Path), PathOf(repoRoot))

\* The segments of the claim: the sanitized components of the path relative
\* to the root for a worktree under the root, else those of its absolute
\* path.
ClaimedSegments ==
    IF SubPath
    THEN sanitizeSegments(SubSeq(PathOf(worktree.Path), Len(PathOf(repoRoot)) + 1,
                                 Len(PathOf(worktree.Path))))
    ELSE sanitizeSegments(PathOf(worktree.Path))

\* C10: the cache root is derived from the segments of the claim: those of
\* the relative path for a worktree under the repository root, those of the
\* absolute path of the worktree otherwise, and no segment is "..".
C10_SegmentsOfWorktree ==
    storeRoot # "" =>
        /\ worktreePathSegments(repoRoot, worktree.Path) = ClaimedSegments
        /\ \A i \in 1..Len(worktreePathSegments(repoRoot, worktree.Path)) :
              worktreePathSegments(repoRoot, worktree.Path)[i] # ".."
        /\ storeRoot = Join(<<home, storeRootDir, storeSubDir,
                              sanitizeName(Base(repoRoot))>> \o ClaimedSegments)

(***************************************************************************)
(* The worktree lister: gitx.ListWorktrees on the texts of up to MaxLines  *)
(* lines, of worktree, branch and HEAD lines, lines with white space       *)
(* around them, a worktree line with no path, and lines of other kinds.    *)
(***************************************************************************)

MaxLines == 4

PorcelainLines ==
    {"worktree /a", "\tworktree  /b \r", "worktree ",
     "branch refs/heads/m", "branch x", "HEAD 1111", "locked", ""}

RECURSIVE LinesUpTo(_)
LinesUpTo(n) ==
    IF n = 0 THEN {<<>>}
    ELSE LinesUpTo(n - 1)
         \cup {Append(ls, l) : ls \in {x \in LinesUpTo(n - 1) : Len(x) = n - 1},
                               l \in PorcelainLines}

InitParse ==
    /\ pc = "lookup"
    /\ \E c \in {"sync", "push"} : argv = <<c>> /\ cmd = c
    /\ opts = NoOptions
    /\ stdin = "open"
    /\ asked = 0
    /\ entry = ""
    /\ repoRoot = TheRepo
    /\ home = TheHome
    /\ \E ls \in LinesUpTo(MaxLines) : gitOut = JoinStr(ls, "\n")
    /\ wts = <<>>
    /\ worktree = NoWorktree
    /\ exitCode = -1
    /\ errKind = ""
    /\ fs = BaseTree
    /\ cfgFile = [state |-> "absent", Include |-> <<>>, Exclude |-> <<>>]
    /\ loaded = NotLoaded
    /\ storeRoot = ""
    /\ plan = <<>>
    /\ idx = 1
    /\ copied = 0 /\ linked = 0 /\ skipped = 0 /\ pushed = 0
    /\ tallied = FALSE
    /\ attempted = <<>>
    /\ last = NoLast
    /\ pre = fs
    /\ start = fs
    /\ prevRun = NoRun
    /\ edited = FALSE
    /\ faults = 0
    /\ runs = 1

NextParse == Lookup

SpecParse == InitParse /\ [][NextParse]_vars

(***************************************************************************)
(* Properties of the worktree lister, under SpecParse.                     *)
(***************************************************************************)

\* The lines of the text, and a line as the records are read from it: with
\* the white space around it when trimmed is FALSE, without when TRUE.
GitLines == Split(gitOut, "\n")
LineAt(i, trimmed) == IF trimmed THEN TrimSpace(GitLines[i]) ELSE GitLines[i]

\* The worktree lines, the k-th of them, and the lines that belong to it:
\* those after it and before the next worktree line.
WorktreeLines(trimmed) ==
    {i \in 1..Len(GitLines) : HasPrefix(LineAt(i, trimmed), "worktree ")}
NthOf(S, k) == CHOOSE i \in S : Cardinality({j \in S : j < i}) = k - 1
LinesOf(S, k) ==
    {j \in 1..Len(GitLines) :
        /\ j > NthOf(S, k)
        /\ k < Cardinality(S) => j < NthOf(S, k + 1)}

\* The value of the last line of the k-th record that starts with key, ""
\* when the record has none.
ValueOf(S, k, key, trimmed) ==
    LET js == {j \in LinesOf(S, k) : HasPrefix(LineAt(j, trimmed), key)} IN
    IF js = {} THEN ""
    ELSE TrimSpace(TrimPrefix(LineAt(CHOOSE j \in js : \A h \in js : h <= j, trimmed), key))

\* One record per worktree line, in the order of the text.
RecordsOf(S, trimmed) ==
    [k \in 1..Cardinality(S) |->
        [Path |-> TrimSpace(TrimPrefix(LineAt(NthOf(S, k), trimmed), "worktree ")),
         Branch |-> ValueOf(S, k, "branch ", trimmed),
         Head |-> ValueOf(S, k, "HEAD ", trimmed)]]

\* What the claim describes for the text: an error and no record without a
\* worktree line, the records otherwise.
ListOf(trimmed) ==
    [err |-> WorktreeLines(trimmed) = {}, out |-> RecordsOf(WorktreeLines(trimmed), trimmed)]

MaxPatterns == 2

LoadPatterns == {".env", "**/.env", "**/*.example*"}

RECURSIVE PatternLists(_)
PatternLists(n) ==
    IF n = 0 THEN {<<>>}
    ELSE PatternLists(n - 1)
         \cup {Append(ps, q) : ps \in {x \in PatternLists(n - 1) : Len(x) = n - 1},
                               q \in LoadPatterns}

LoadConfigs ==
    {[state |-> s, Include |-> <<>>, Exclude |-> <<>>] :
        s \in {"absent", "unreadable", "malformed"}}
    \cup {[state |-> "parsed", Include |-> i, Exclude |-> x] :
            i \in PatternLists(MaxPatterns), x \in PatternLists(MaxPatterns)}

InitLoad ==
    /\ repoRoot = TheRepo
    /\ home = TheHome
    /\ gitOut = Porcelain(TheWorktrees)
    /\ wts = TheWorktrees
    /\ cfgFile \in LoadConfigs
    /\ \E c \in {"sync", "push"} : Invoked(ArgvOf(c, 3, TRUE, FALSE))
    /\ fs = MatchTree
    /\ pre = fs
    /\ start = fs
    /\ prevRun = NoRun
    /\ edited = FALSE
    /\ faults = 0
    /\ runs = 1

NextLoad == Prepare

SpecLoad == InitLoad /\ [][NextLoad]_vars

(***************************************************************************)
(* Properties of the config loader, under SpecLoad.                        *)
(***************************************************************************)

\* The built-in lists.
BuiltinInclude == <<".env", ".env.*", "**/.env", "**/.env.*">>
BuiltinExclude == <<"**/*.example*", "**/node_modules/**", "**/.git/**">>

\* The command is past config.Load.
PastLoad == pc # "selected"

\* C12: with no config file the configuration loaded is the built-in
\* include and exclude lists, with the source "defaults"; with a file that
\* parses, include is the list of the file when it is not empty and the
\* built-in include list when it is, exclude likewise and independently of
\* include, and the source is the path of the file; with a file that cannot
\* be read or parsed the command ends with the error and no configuration.
C12_DefaultsPerField ==
    PastLoad =>
        /\ cfgFile.state = "absent" =>
              /\ loaded.done /\ loaded.Source = "defaults"
              /\ loaded.Config = [Include |-> BuiltinInclude, Exclude |-> BuiltinExclude]
        /\ cfgFile.state = "parsed" =>
              /\ loaded.done /\ loaded.Source = "/r/.worktree-manager.yml"
              /\ loaded.Config.Include =
                    (IF cfgFile.Include = <<>> THEN BuiltinInclude ELSE cfgFile.Include)
              /\ loaded.Config.Exclude =
                    (IF cfgFile.Exclude = <<>> THEN BuiltinExclude ELSE cfgFile.Exclude)
        /\ cfgFile.state \in {"unreadable", "malformed"} =>
              (~loaded.done /\ pc = "exit" /\ errKind = "config")

\* A file that sets include only: its include, the built-in exclude.
C12_Witness ==
    /\ PastLoad /\ loaded.done
    /\ cfgFile.state = "parsed" /\ cfgFile.Include = <<"**/.env">> /\ cfgFile.Exclude = <<>>
    /\ loaded.Config = [Include |-> <<"**/.env">>, Exclude |-> BuiltinExclude]

(***************************************************************************)
(* Further properties of the executor, under SpecExec.                     *)
(***************************************************************************)

\* The entry at the path is what it was before the step.
KeptAt(q) ==
    IF q \in DOMAIN pre THEN q \in DOMAIN fs /\ fs[q] = pre[q] ELSE q \notin DOMAIN fs

\* C13: after a push step the repo destination of the item either is what
\* it was before (the item was declined or met an error) or is a file with
\* the content of the cache file of the item (the item was pushed): it is
\* never left removed or emptied.
C13_PushKeepsOrReplaces ==
    (Stepped /\ cmd = "push") =>
        \/ last.res # "pushed" /\ KeptAt(LastItem.repoAbs)
        \/ /\ last.res = "pushed"
           /\ LastItem.repoAbs \in DOMAIN fs
           /\ fs[LastItem.repoAbs] = FileE(Content(pre, LastItem.storeAbs))

(***************************************************************************)
(* Further properties of the cache path derivation, under SpecPath.        *)
(***************************************************************************)

\* The directory of the caches of the repository:
\* <home>/.wtm/configs/<sanitized-repo-name>.
RepoCacheDir ==
    PathOf(home) \o <<".wtm", "configs">>
    \o <<IF sanitizeName(Base(repoRoot)) = "" THEN "repo" ELSE sanitizeName(Base(repoRoot))>>

\* C14: the cache root derived for the worktree selected is a strict
\* descendant of the directory of the caches of the repository.
C14_CacheRootUnderRepoDir ==
    storeRoot # "" =>
        /\ Len(PathOf(storeRoot)) > Len(RepoCacheDir)
        /\ SubSeq(PathOf(storeRoot), 1, Len(RepoCacheDir)) = RepoCacheDir

(***************************************************************************)
(* The tallies and the cache copy, under SpecExec.                         *)
(***************************************************************************)

\* The tallies of the items worked on so far (idx - 1 of them; all of the
\* plan once the tally is printed).
TalliesSoFar ==
    (pc = "loop" \/ tallied) =>
        /\ tallied => idx - 1 = Len(plan)
        /\ cmd = "sync" =>
              /\ linked + skipped = idx - 1
              /\ copied >= linked /\ copied <= idx - 1
              /\ pushed = 0
        /\ cmd = "push" =>
              /\ pushed + skipped = idx - 1
              /\ copied = 0 /\ linked = 0

\* C15: when the tally is printed, in sync linked + skipped is the number
\* of plan items and copied >= linked, in push pushed + skipped is the
\* number of plan items (and so it is of the items worked on, at every
\* item); a sync item copied into the cache and then not linked counts as
\* copied and as skipped, one that is not copied as skipped only, one that
\* is linked as copied and linked.
C15_Tallies ==
    /\ []TalliesSoFar
    /\ [][(pc = "loop" /\ cmd = "sync" /\ ~tallied') =>
            /\ last'.res \in {"declined", "linkerr"} =>
                  (copied' = copied + 1 /\ skipped' = skipped + 1 /\ linked' = linked)
            /\ last'.res = "copyerr" =>
                  (copied' = copied /\ skipped' = skipped + 1 /\ linked' = linked)
            /\ last'.res = "linked" =>
                  (copied' = copied + 1 /\ skipped' = skipped /\ linked' = linked + 1)]_vars

\* The tally of a sync with an item copied and not linked: the three counts
\* add up to more than the plan.
C15_Witness ==
    /\ tallied /\ cmd = "sync"
    /\ copied > linked
    /\ copied + linked + skipped > Len(plan)
    /\ linked + skipped = Len(plan)

\* C16: after a sync step whose copy succeeds the cache file of the item
\* holds the content the repo source had, whatever the cache file held
\* before, with --force or without, and whether the item is then linked,
\* declined or fails to link; the only question the step asks is the one
\* for a destination that exists and is not the link to the cache file.
C16_CacheOverwrittenUnasked ==
    (Stepped /\ cmd = "sync" /\ last.res # "copyerr") =>
        /\ Content(fs, LastItem.storeAbs) = Content(pre, LastItem.repoAbs)
        /\ last.asked <= 1
        /\ last.asked = 1 => (~opts.force /\ OccupiedBefore)
        /\ LinkedBefore => last.asked = 0

\* Without --force and without a question, a sync step replaced what had
\* been written to the cache file through the link of the worktree.
C16_Witness ==
    /\ Stepped /\ cmd = "sync" /\ ~opts.force /\ LinkedBefore
    /\ last.asked = 0 /\ last.res = "linked"
    /\ Content(pre, LastItem.storeAbs) = "E"
    /\ Content(pre, LastItem.repoAbs) # "E"
    /\ Content(fs, LastItem.storeAbs) = Content(pre, LastItem.repoAbs)

====
